---- MODULE Spec2Model ----
(***************************************************************************)
(* RIFT Forensics analysis engine (src/backend/logic.py).                  *)
(*                                                                         *)
(* analyze_transactions is a batch function: one call cleans a table of    *)
(* transactions, folds it into a directed graph, scores every node with    *)
(* seven heuristics, detects rings on the strongly connected components    *)
(* and assembles a result document.  The model runs the stages of one call *)
(* in order, one action per stage; the batch is the input.                 *)
(*                                                                         *)
(* Representation.                                                         *)
(*   - an identifier is a sequence of one-character strings, so that       *)
(*     str.strip() and string comparison are computed, not assumed;        *)
(*   - a raw amount cell is [ok, v]: ok = FALSE is a cell pd.to_numeric    *)
(*     cannot parse; amounts are whole currency units;                     *)
(*   - a timestamp is <<>> (None) or <<m>>, m minutes since an epoch;      *)
(*   - PageRank is a fixed-point number, PR_ONE standing for 1.0.          *)
(*                                                                         *)
(* Specifications.  Spec: one call on small batches of dirty rows.         *)
(* SpecRerun: a second call on the same rows.  SpecScenario: one call on   *)
(* the larger scenario batches (cycles of 2 to 9 accounts, a component of  *)
(* more than 100, fan-in stars, pass-through chains).  SpecUpload: the     *)
(* /analyze handlers of src/backend/main.py and src/main.py from the       *)
(* upload to the start of their own analysis.                              *)
(***************************************************************************)
EXTENDS Integers, Sequences, FiniteSets, TLC

VARIABLES
    pc,           \* stage of analyze_transactions about to run
    batch,        \* the DataFrame handed to analyze_transactions
    df,           \* the cleaned DataFrame (logic.py:99-105)
    G,            \* the nx.DiGraph: nodes, adjacency, edge attributes
    pagerank,     \* node -> PageRank (fixed point); the iterate while computing
    pr_iter,      \* rounds of power iteration done
    attrs,        \* node -> attribute dict G.nodes[n]
    fraud_rings,  \* the list fraud_rings (logic.py:247)
    hashOrder,    \* iteration order of Python sets of str in this process
    result,       \* the returned document
    run,          \* 1 for the first call, 2 for a repeated call
    prev,         \* batch, hash order and document of the first call
    request,      \* the upload posted to /analyze
    response,     \* status code of the HTTP response, 0 while there is none
    frame,        \* the DataFrame the endpoint hands to its analysis
    louvain,      \* what louvain_communities does in this process
    community_map,\* the dict community_map (logic.py:140)
    series,       \* a column of amounts, in hundredths
    deviation     \* _benford_deviation of the column, in units of 1e-4

vars == <<pc, batch, df, G, pagerank, pr_iter, attrs, fraud_rings, hashOrder, result, run, prev,
          request, response, frame, louvain, community_map, series, deviation>>

----------------------------------------------------------------------------
(* Thresholds, logic.py:22-28 and :258 *)

STRUCTURING_THRESHOLD == 10000
STRUCTURING_BAND_LOW == 8000
MIN_RING_SIZE == 2
MAX_RING_SIZE == 8
HIGH_RISK_THRESHOLD == 70
MAX_SCC_SIZE_FOR_EXACT_SEARCH == 100

(* Bounds of the model: rows in the free part of a batch, for one call and
   for a pair of calls *)
MaxRows == 3

MaxRerunRows == 2

(* Largest set of accounts whose every iteration order is explored *)
MaxHashed == 5

\* Accounts on the cycle of the large strongly connected component
NetworkNodes == 101

----------------------------------------------------------------------------
(* Generic helpers *)

Range(s) == {s[i] : i \in DOMAIN s}

Min(a, b) == IF a < b THEN a ELSE b

Max(a, b) == IF a > b THEN a ELSE b

AbsInt(x) == IF x < 0 THEN -x ELSE x

\* e, once v has its value.  TLC evaluates an operator's argument where it is
\* first used, which nests the steps of a long loop inside one another; a
\* loop written with Then evaluates each step before the next one starts.
Then(v, e) == IF v = v THEN e ELSE e

\* The sequence s with its elements evaluated: TLC keeps [i \in 1..n |-> e]
\* as a rule and evaluates e again at every s[i]; concatenation makes a list.
Listed(s) == s \o <<>>

\* sum(s); the sequence is halved so that long sequences stay shallow.
RECURSIVE SumSeq(_)
SumSeq(s) ==
    IF s = <<>> THEN 0
    ELSE IF Len(s) = 1 THEN s[1]
    ELSE LET h == Len(s) \div 2
         IN  SumSeq(SubSeq(s, 1, h)) + SumSeq(SubSeq(s, h + 1, Len(s)))

\* The order a stable ascending sort puts the positions of keys in: the
\* position of rank k, equal keys keeping their order (Python's list.sort and
\* sorted; with reverse=True the keys are negated, equal keys still keep
\* their order).
StableOrder(keys) ==
    LET n == Len(keys)
        ks == Listed(keys)
        rank == Listed([i \in 1..n |->
                    Cardinality({j \in 1..n : ks[j] < ks[i]
                                              \/ (ks[j] = ks[i] /\ j <= i)})])
    IN  Listed([k \in 1..n |-> CHOOSE i \in 1..n : rank[i] = k])

\* All orderings of the finite set S, as sequences.
SeqPerms(S) ==
    {p \in [1..Cardinality(S) -> S] : \A i, j \in DOMAIN p : i # j => p[i] # p[j]}

----------------------------------------------------------------------------
(* Strings *)

DigitChars == <<"0", "1", "2", "3", "4", "5", "6", "7", "8", "9">>

Letters == <<"A", "B", "C", "D", "E", "F", "G", "H", "I", "J", "K", "L", "M",
             "N", "O", "P", "Q", "R", "S", "T", "U", "V", "W", "X", "Y", "Z">>

\* ord(c) for the characters identifiers are written with
CharCode(c) ==
    IF c = " " THEN 32
    ELSE IF \E d \in DOMAIN DigitChars : DigitChars[d] = c
    THEN 47 + (CHOOSE d \in DOMAIN DigitChars : DigitChars[d] = c)
    ELSE IF \E l \in DOMAIN Letters : Letters[l] = c
    THEN 64 + (CHOOSE l \in DOMAIN Letters : Letters[l] = c)
    ELSE 126

\* Python's < on str: lexicographic on code points, a proper prefix is smaller.
RECURSIVE StrLess(_, _)
StrLess(a, b) ==
    IF b = <<>> THEN FALSE
    ELSE IF a = <<>> THEN TRUE
    ELSE IF CharCode(a[1]) # CharCode(b[1]) THEN CharCode(a[1]) < CharCode(b[1])
    ELSE StrLess(Tail(a), Tail(b))

RECURSIVE LStrip(_)
LStrip(s) == IF s # <<>> /\ s[1] = " " THEN LStrip(Tail(s)) ELSE s

RECURSIVE RStrip(_)
RStrip(s) ==
    IF s # <<>> /\ s[Len(s)] = " " THEN RStrip(SubSeq(s, 1, Len(s) - 1)) ELSE s

\* str.strip()
Strip(s) == RStrip(LStrip(s))

----------------------------------------------------------------------------
(* 1. Data cleaning, logic.py:98-105 *)

NoTs == <<>>

Num(n) == [ok |-> TRUE, v |-> n]

Unparseable == [ok |-> FALSE, v |-> 0]

Row(s, t, a, ts) == [source |-> s, target |-> t, amount |-> a, timestamp |-> ts]

\* The coerced amount with its sign.
CleanAmountSigned(a) == IF a.ok THEN a.v ELSE 0

\* pd.to_numeric(errors='coerce').fillna(0).abs()
CleanAmount(a) == IF a.ok THEN AbsInt(a.v) ELSE 0

NormalizeRowNoStrip(r) ==
    [source |-> r.source, target |-> r.target,
     amount |-> CleanAmount(r.amount), timestamp |-> r.timestamp]

\* One row after the three column assignments of logic.py:100-102; the
\* amount is now a number.
NormalizeRow(r) ==
    [source |-> Strip(r.source), target |-> Strip(r.target),
     amount |-> CleanAmount(r.amount), timestamp |-> r.timestamp]

KeepRowSelfLoops(r) == r.amount > 0

KeepRow(r) == r.source # r.target /\ r.amount > 0

CleanRowsKeepZero(rows) ==
    SelectSeq([i \in DOMAIN rows |-> NormalizeRow(rows[i])],
              LAMBDA r : r.source # r.target)

\* Rows kept by the two filters of logic.py:104-105, in input order.
CleanRows(rows) ==
    SelectSeq([i \in DOMAIN rows |-> NormalizeRow(rows[i])], KeepRow)

EmptyDoc ==
    [elements |-> <<>>, metrics |-> <<>>, flagged_accounts |-> <<>>,
     fraud_rings |-> <<>>]

----------------------------------------------------------------------------
(* 2. Directed graph, logic.py:110-131.  nx.DiGraph keeps nodes and the  *)
(* successors of a node in insertion order.                               *)

EmptyGraph == [nodes |-> <<>>, adj |-> <<>>, edge |-> <<>>]

HasEdge(g, u, v) == <<u, v>> \in DOMAIN g.edge

AddNode(g, n) ==
    IF n \in Range(g.nodes) THEN g
    ELSE [g EXCEPT !.nodes = Append(@, n), !.adj = @ @@ (n :> <<>>)]

\* The body of the loop over df.iterrows(), logic.py:113-119: an existing
\* edge gains the amount and one count and keeps its timestamp.
AddRow(g, r) ==
    LET u == r.source
        v == r.target
    IN  IF HasEdge(g, u, v)
        THEN [g EXCEPT !.edge[<<u, v>>] =
                  [@ EXCEPT !.amount = @ + r.amount, !.count = @ + 1]]
        ELSE LET g2 == AddNode(AddNode(g, u), v)
             IN  [g2 EXCEPT
                    !.adj[u] = Append(@, v),
                    !.edge = @ @@ (<<u, v>> :>
                        [amount |-> r.amount, count |-> 1, timestamp |-> r.timestamp])]

\* The loop over df.iterrows(): the rows in order, first half then second.
RECURSIVE AddRows(_, _)
AddRows(g, rows) ==
    IF rows = <<>> THEN g
    ELSE IF Len(rows) = 1 THEN AddRow(g, rows[1])
    ELSE LET h == Len(rows) \div 2
             left == AddRows(g, SubSeq(rows, 1, h))
         IN  Then(left, AddRows(left, SubSeq(rows, h + 1, Len(rows))))

BuildGraphFrom(rows) == AddRows(EmptyGraph, rows)

\* G.edges(): for each node in node order, its out-edges in adjacency order.
RECURSIVE EdgesFrom(_, _)
EdgesFrom(g, ns) ==
    IF ns = <<>> THEN <<>>
    ELSE IF Len(ns) = 1
    THEN [i \in DOMAIN g.adj[ns[1]] |-> <<ns[1], g.adj[ns[1]][i]>>]
    ELSE LET h == Len(ns) \div 2
         IN  EdgesFrom(g, SubSeq(ns, 1, h)) \o EdgesFrom(g, SubSeq(ns, h + 1, Len(ns)))

EdgeList(g) == EdgesFrom(g, g.nodes)

NodeSet(g) == Range(g.nodes)

\* logic.py:122-131
InitialAttrs ==
    [risk_score |-> 0, type |-> "standard", suspicious |-> FALSE, pagerank |-> 0,
     rings |-> <<>>, flags |-> <<>>, in_volume |-> 0, out_volume |-> 0]

----------------------------------------------------------------------------
(* 3. PageRank, logic.py:133-137.  nx.pagerank(G, weight='amount',        *)
(* alpha=0.85, max_iter=200) is power iteration from the uniform vector   *)
(* with tolerance 1e-6 per node; it raises when it has not converged      *)
(* after max_iter rounds, and the except clause then yields the uniform   *)
(* vector.  Values are fixed-point with PR_ONE = 1.0.  The rounds are     *)
(* steps of the PageRank action below.                                    *)

PR_ONE == 10 * 1000 * 1000

PR_MAX_ITER == 200

PR_TOL == PR_ONE \div (1000 * 1000)

\* floor(x * w / W) without leaving 32 bits
MulDiv(x, w, W) == (x \div W) * w + ((x % W) * w) \div W

OutAmount(g, u) == SumSeq([i \in DOMAIN g.adj[u] |-> g.edge[<<u, g.adj[u][i]>>].amount])

InAmount(g, v) ==
    SumSeq([i \in DOMAIN g.nodes |->
              IF HasEdge(g, g.nodes[i], v) THEN g.edge[<<g.nodes[i], v>>].amount ELSE 0])

InDegree(g, v) ==
    SumSeq([i \in DOMAIN g.nodes |-> IF HasEdge(g, g.nodes[i], v) THEN 1 ELSE 0])

OutDegree(g, u) == Len(g.adj[u])

UniformRank(g) == [n \in NodeSet(g) |-> PR_ONE \div Max(Len(g.nodes), 1)]

PowerStep(g, x) ==
    LET N == Len(g.nodes)
        dangling == SumSeq([i \in DOMAIN g.nodes |->
                        IF g.adj[g.nodes[i]] = <<>> THEN x[g.nodes[i]] ELSE 0])
        inflow(v) == SumSeq([i \in DOMAIN g.nodes |->
                        LET u == g.nodes[i]
                        IN  IF HasEdge(g, u, v)
                            THEN MulDiv(x[u], g.edge[<<u, v>>].amount, OutAmount(g, u))
                            ELSE 0])
    IN  [v \in NodeSet(g) |->
            (85 * (inflow(v) + dangling \div N) + 15 * (PR_ONE \div N) + 50) \div 100]

RankError(g, x, y) == SumSeq([i \in DOMAIN g.nodes |-> AbsInt(x[g.nodes[i]] - y[g.nodes[i]])])

\* err < N * tol, the test that ends the power iteration
Converged(g, x, y) == RankError(g, x, y) < Len(g.nodes) * PR_TOL

----------------------------------------------------------------------------
(* 5. Per-node heuristic scoring, logic.py:155-244 *)

Flag(text, arg) == <<text, arg>>

\* sort_values() on a Series of numbers
SortInts(s) == LET ord == StableOrder(s) IN Listed([k \in DOMAIN s |-> s[ord[k]]])

\* 100 * df['amount'].quantile(0.95): pandas interpolates linearly between the
\* order statistics around position 0.95 * (n - 1).
Quantile95x100(rows) ==
    LET s   == SortInts([i \in DOMAIN rows |-> rows[i].amount])
        pos == 95 * (Len(s) - 1)
        lo  == pos \div 100 + 1
        hi  == Min(lo + 1, Len(s))
    IN  100 * s[lo] + (pos % 100) * (s[hi] - s[lo])

\* node_in_tx_amounts[v], logic.py:162-165: one entry per in-edge of v, the
\* folded amount of the edge, in G.edges() order.
NodeInTxAmounts(g, v) ==
    LET es == SelectSeq(EdgeList(g), LAMBDA e : e[2] = v)
    IN  [i \in DOMAIN es |-> g.edge[es[i]].amount]

\* node_in_timestamps[v], logic.py:163-167: the timestamp of each in-edge
\* that has one.
NodeInTimestamps(g, v) ==
    LET es == SelectSeq(EdgeList(g), LAMBDA e : e[2] = v /\ g.edge[e].timestamp # NoTs)
    IN  [i \in DOMAIN es |-> g.edge[es[i]].timestamp[1]]

\* _velocity_anomaly, logic.py:65-77; timestamps in minutes, so that
\* rate = len(ts) / max(window_hours, 1) > 20.
VelocityAnomaly(timestamps, node_in_edges) ==
    IF Len(node_in_edges) < 5 THEN FALSE
    ELSE IF Len(timestamps) < 2 THEN FALSE
    ELSE LET ts     == SortInts(timestamps)
             window == ts[Len(ts)] - ts[1]
         IN  Len(ts) * 60 > 20 * Max(window, 60)

\* logic.py:182-184.  balance / (total_flow + 1e-9) < 0.15 on whole amounts
\* is 100 * balance <= 15 * total_flow: the 1e-9 admits exact equality.
IsPassThrough(ci, co) ==
    /\ ci + co > 0
    /\ ci > 500
    /\ co > 500
    /\ 100 * AbsInt(ci - co) <= 15 * (ci + co)

\* logic.py:191-193
IsAggregator(ind, ci, co) ==
    /\ ind >= 5
    /\ ci > 0
    /\ ci < STRUCTURING_THRESHOLD * ind
    /\ 10 * co > 8 * ci

\* The band with the reporting threshold itself inside it.
StructuredInclusive(in_txs) ==
    SelectSeq(in_txs, LAMBDA a : STRUCTURING_BAND_LOW <= a /\ a <= STRUCTURING_THRESHOLD)

\* logic.py:202
Structured(in_txs) ==
    SelectSeq(in_txs, LAMBDA a : STRUCTURING_BAND_LOW <= a /\ a < STRUCTURING_THRESHOLD)

\* pr > PAGERANK_KINGPIN (0.04), logic.py:27 and :209
IsKingpin(pr) == 100 * pr > 4 * PR_ONE

\* int(pr * 400), logic.py:210
KingpinPoints(pr) == pr \div (PR_ONE \div 400)

\* The score without the cap.
CapRiskUncapped(risk) == risk

\* risk = min(risk, 100), logic.py:233
CapRisk(risk) == Min(risk, 100)

\* Suspicion decided by the flags alone.
IsSuspiciousFlagsOnly(risk, flags) == flags # <<>>

\* is_suspicious = risk > 10 or bool(flags), logic.py:234
IsSuspicious(risk, flags) == risk > 10 \/ flags # <<>>

\* One iteration of the loop of logic.py:169-244: the attribute dict of node
\* after scoring.  Each heuristic contributes [risk, type, flags].  q95 is
\* 100 * df['amount'].quantile(0.95), the same in every iteration.
ScoreNode(g, pr_map, q95, node) ==
    LET ci   == InAmount(g, node)
        co   == OutAmount(g, node)
        pr   == pr_map[node]
        ind  == InDegree(g, node)
        outd == OutDegree(g, node)
        total_flow == ci + co
        in_txs     == NodeInTxAmounts(g, node)
        structured == Structured(in_txs)
        hA == IsPassThrough(ci, co)
        hB == IsAggregator(ind, ci, co)
        hC == Len(structured) >= 3
        hD == IsKingpin(pr)
        hDsrc == hD /\ (2 * co > 3 * ci \/ ind = 0)
        hE == outd > 20 /\ co > 2 * ci
        hF == VelocityAnomaly(NodeInTimestamps(g, node), in_txs)
        hG == (ind + outd) <= 2 /\ 100 * total_flow > 3 * q95
        risk == (IF hA THEN 45 ELSE 0)
              + (IF hB THEN 35 ELSE 0)
              + (IF hC THEN 25 + Min(5 * (Len(structured) - 3), 20) ELSE 0)
              + (IF hD THEN KingpinPoints(pr) ELSE 0)
              + (IF hE THEN 20 ELSE 0)
              + (IF hF THEN 20 ELSE 0)
              + (IF hG THEN 25 ELSE 0)
        type == IF hA THEN "mule"
                ELSE IF hB THEN "aggregator"
                ELSE IF hDsrc THEN "source"
                ELSE "standard"
        flags == (IF hA THEN <<Flag("pass-through mule", <<>>)>> ELSE <<>>)
              \o (IF hB THEN <<Flag("smurfing aggregator", <<>>)>> ELSE <<>>)
              \o (IF hC THEN <<Flag("structuring (N near-threshold txns)",
                                    <<Len(structured)>>)>> ELSE <<>>)
              \o (IF hDsrc THEN <<Flag("high-influence source (PR=)",
                                       <<(pr + PR_ONE \div 2000) \div (PR_ONE \div 1000)>>)>>
                  ELSE <<>>)
              \o (IF hE THEN <<Flag("fan-out dispersion (N targets)", <<outd>>)>> ELSE <<>>)
              \o (IF hF THEN <<Flag("velocity burst (>20 txn/hour)", <<>>)>> ELSE <<>>)
              \o (IF hG THEN <<Flag("high-value isolated node (shell?)", <<>>)>> ELSE <<>>)
        capped == CapRisk(risk)
    IN  [risk_score |-> capped,
         type       |-> type,
         suspicious |-> IsSuspicious(capped, flags),
         pagerank   |-> (pr + PR_ONE \div 200000) \div (PR_ONE \div 100000),
         rings      |-> <<>>,
         flags      |-> flags,
         in_volume  |-> ci,
         out_volume |-> co]

----------------------------------------------------------------------------
(* 6. Cycle detection, logic.py:246-312 *)

\* nx.strongly_connected_components(G): the non-recursive Tarjan variant of
\* networkx.  A state holds its dictionaries; the components are yielded as
\* sets, in the order their roots finish.
SccStart ==
    [i |-> 0, preorder |-> <<>>, lowlink |-> <<>>, found |-> {}, sccq |-> <<>>,
     nbr |-> <<>>, queue |-> <<>>, out |-> <<>>]

\* First position at or after j in succs of a node without preorder (0: none).
RECURSIVE NextUnvisited(_, _, _)
NextUnvisited(succs, j, seen) ==
    IF j > Len(succs) THEN 0
    ELSE IF succs[j] \notin seen THEN j
    ELSE NextUnvisited(succs, j + 1, seen)

\* lowlink[v] after the loop over G[v]
RECURSIVE LowLink(_, _, _, _)
LowLink(st, v, succs, low) ==
    IF succs = <<>> THEN low
    ELSE LET w == succs[1]
             l == IF w \in st.found THEN low
                  ELSE IF st.preorder[w] > st.preorder[v]
                       THEN Min(low, st.lowlink[w])
                       ELSE Min(low, st.preorder[w])
         IN  LowLink(st, v, Tail(succs), l)

\* Pops of scc_queue while preorder[scc_queue[-1]] > preorder[v]: the tail of
\* the queue after its last entry that is not newer than v.
PopScc(st, v, scc) ==
    LET q    == st.sccq
        keep == {i \in DOMAIN q : st.preorder[q[i]] <= st.preorder[v]}
        cut  == IF keep = {} THEN 0 ELSE CHOOSE i \in keep : \A j \in keep : j <= i
        all  == scc \cup {q[i] : i \in (cut + 1)..Len(q)}
    IN  [st EXCEPT !.sccq = SubSeq(q, 1, cut), !.found = @ \cup all,
                   !.out = Append(@, all)]

\* One pass of the body of "while queue:"
SccStep(g, st0) ==
    IF st0.queue = <<>> THEN st0
    ELSE LET v  == st0.queue[Len(st0.queue)]
             st == IF v \in DOMAIN st0.preorder THEN st0
                   ELSE [st0 EXCEPT !.i = @ + 1,
                                    !.preorder = @ @@ (v :> st0.i + 1)]
             from == IF v \in DOMAIN st.nbr THEN st.nbr[v] ELSE 1
             j  == NextUnvisited(g.adj[v], from, DOMAIN st.preorder)
         IN  IF j # 0
             THEN [st EXCEPT
                     !.nbr = (v :> j + 1) @@ @,
                     !.queue = Append(@, g.adj[v][j])]
             ELSE LET low == LowLink(st, v, g.adj[v], st.preorder[v])
                      st2 == [st EXCEPT
                                !.nbr = (v :> Len(g.adj[v]) + 1) @@ @,
                                !.lowlink = (v :> low) @@ @,
                                !.queue = SubSeq(@, 1, Len(@) - 1)]
                  IN  IF low = st.preorder[v]
                      THEN PopScc(st2, v, {v})
                      ELSE [st2 EXCEPT !.sccq = Append(@, v)]

\* "while queue:" for at most k passes; a node is pushed once and finished
\* once, so twice the number of nodes is enough passes.
RECURSIVE SccWhile(_, _, _)
SccWhile(g, st, k) ==
    IF st.queue = <<>> THEN st
    ELSE IF k <= 1 THEN SccStep(g, st)
    ELSE LET half == SccWhile(g, st, k \div 2)
         IN  IF half.queue = <<>> THEN half ELSE SccWhile(g, half, k - (k \div 2))

\* "for source in G:", sources already in a component being skipped
RECURSIVE SccSources(_, _, _)
SccSources(g, st, sources) ==
    IF sources = <<>> THEN st
    ELSE IF Len(sources) = 1
    THEN IF sources[1] \in st.found THEN st
         ELSE SccWhile(g, [st EXCEPT !.queue = <<sources[1]>>], 2 * Len(g.nodes))
    ELSE LET h == Len(sources) \div 2
             left == SccSources(g, st, SubSeq(sources, 1, h))
         IN  Then(left, SccSources(g, left, SubSeq(sources, h + 1, Len(sources))))

StronglyConnectedComponents(g) == SccSources(g, SccStart, g.nodes).out

\* logic.py:255
NontrivialSccs(g) ==
    SelectSeq(StronglyConnectedComponents(g), LAMBDA c : Cardinality(c) > 1)

\* nx.simple_cycles(G.subgraph(scc)): every elementary cycle of the induced
\* subgraph, once.  networkx starts each search at a node taken from a set
\* and reports a cycle from that node on, so the order of the cycles and the
\* rotation of each follow the iteration order of sets of str: h.  The
\* search from a start node walks the successors in adjacency order.
RECURSIVE CyclesVia(_, _, _, _)
CyclesVia(g, path, allowed, succs) ==
    IF succs = <<>> THEN <<>>
    ELSE LET w == succs[1]
             here == IF w \notin allowed THEN <<>>
                     ELSE IF w = path[1] THEN <<path>>
                     ELSE IF w \in Range(path) THEN <<>>
                     ELSE CyclesVia(g, Append(path, w), allowed, g.adj[w])
         IN  here \o CyclesVia(g, path, allowed, Tail(succs))

RECURSIVE CyclesFromStarts(_, _, _)
CyclesFromStarts(g, starts, allowed) ==
    IF starts = <<>> THEN <<>>
    ELSE IF Len(starts) = 1
    THEN CyclesVia(g, <<starts[1]>>, allowed, g.adj[starts[1]])
    ELSE LET h == Len(starts) \div 2
         IN  CyclesFromStarts(g, SubSeq(starts, 1, h), allowed)
             \o CyclesFromStarts(g, SubSeq(starts, h + 1, Len(starts)),
                                 allowed \ {starts[i] : i \in 1..h})

SimpleCycles(g, scc, h) ==
    CyclesFromStarts(g, SelectSeq(h, LAMBDA n : n \in scc), scc)

RECURSIVE Digits(_)
Digits(k) == IF k < 10 THEN <<k>> ELSE Append(Digits(k \div 10), k % 10)

\* The number without padding.
Pad3Unpadded(k) == Digits(k)

\* f"{k:03d}"
Pad3(k) ==
    LET d == Digits(k)
    IN  IF Len(d) >= 3 THEN d ELSE [i \in 1..(3 - Len(d)) |-> 0] \o d

RingId(prefix, k) == <<prefix>> \o Pad3(k)

\* The amounts along the cycle without the edge that closes it.
CycleVolumeOpen(g, cycle) ==
    SumSeq([i \in 1..(Len(cycle) - 1) |-> g.edge[<<cycle[i], cycle[i + 1]>>].amount])

\* logic.py:273-277
CycleVolume(g, cycle) ==
    SumSeq([i \in DOMAIN cycle |->
              LET u == cycle[i]
                  v == cycle[(i % Len(cycle)) + 1]
              IN  IF HasEdge(g, u, v) THEN g.edge[<<u, v>>].amount ELSE 0])

\* The ring state threaded through the loops: node attributes, fraud_rings,
\* ring_counter and node_rings.
RingStart(at) == [attrs |-> at, rings |-> <<>>, counter |-> 0, node_rings |-> <<>>]

NodeRingsOf(rs, n) == IF n \in DOMAIN rs.node_rings THEN rs.node_rings[n] ELSE <<>>

\* if G.nodes[node]['type'] == 'standard': ... = 'ring_member', logic.py:283-284
CycleMemberType(type) == IF type = "standard" THEN "ring_member" ELSE type

\* The 50 points without the cap.
CycleMemberRiskUncapped(risk) == risk + 50

\* min(risk_score + 50, 100), logic.py:281
CycleMemberRisk(risk) == Min(risk + 50, 100)

\* logic.py:280-286 for one member of a recorded cycle
UpdateCycleMember(rs, node, ring_id) ==
    [rs EXCEPT
        !.attrs[node] = [@ EXCEPT
            !.risk_score = CycleMemberRisk(@),
            !.suspicious = TRUE,
            !.type = CycleMemberType(@),
            !.flags = Append(@, Flag("in", ring_id))],
        !.node_rings = (node :> Append(NodeRingsOf(rs, node), ring_id)) @@ @]

RECURSIVE UpdateCycleMembers(_, _, _)
UpdateCycleMembers(rs, members, ring_id) ==
    IF members = <<>> THEN rs
    ELSE LET first == UpdateCycleMember(rs, members[1], ring_id)
         IN  Then(first, UpdateCycleMembers(first, Tail(members), ring_id))

\* MIN_RING_SIZE < len(cycle) <= MAX_RING_SIZE, logic.py:268
\* The size filter admitting cycles of MIN_RING_SIZE accounts.
RingSizeOkFromMin(cycle) == MIN_RING_SIZE <= Len(cycle) /\ Len(cycle) <= MAX_RING_SIZE

\* MIN_RING_SIZE < len(cycle) <= MAX_RING_SIZE, logic.py:268
RingSizeOk(cycle) == MIN_RING_SIZE < Len(cycle) /\ Len(cycle) <= MAX_RING_SIZE

\* logic.py:267-286 for one cycle
RecordCycle(g, rs, cycle) ==
    IF ~RingSizeOk(cycle) THEN rs
    ELSE LET k       == rs.counter + 1
             ring_id == RingId("RING_", k)
             rs2 == [rs EXCEPT
                       !.counter = k,
                       !.rings = Append(@, [nodes |-> cycle,
                                            volume |-> CycleVolume(g, cycle),
                                            id |-> ring_id, note |-> <<>>])]
         IN  UpdateCycleMembers(rs2, cycle, ring_id)

RECURSIVE RecordCycles(_, _, _)
RecordCycles(g, rs, cycles) ==
    IF cycles = <<>> THEN rs
    ELSE LET first == RecordCycle(g, rs, cycles[1])
         IN  Then(first, RecordCycles(g, first, Tail(cycles)))

\* sorted(list(scc), key=lambda x: G.degree(x), reverse=True): stable, so
\* nodes of equal degree stay in the order list(scc) gave them.
SortByDegreeDesc(g, s) ==
    LET ord == StableOrder([i \in DOMAIN s |-> 0 - (InDegree(g, s[i]) + OutDegree(g, s[i]))])
    IN  Listed([k \in DOMAIN s |-> s[ord[k]]])

\* logic.py:300-305 for one node of a complex network
UpdateNetworkMember(rs, node, ring_id) ==
    [rs EXCEPT
        !.attrs[node] = [@ EXCEPT
            !.risk_score = 100,
            !.suspicious = TRUE,
            !.type = "ring_member",
            !.flags = Append(@, Flag("in massive money mule network", <<>>))],
        !.node_rings = (node :> Append(NodeRingsOf(rs, node), ring_id)) @@ @]

RECURSIVE UpdateNetworkMembers(_, _, _)
UpdateNetworkMembers(rs, members, ring_id) ==
    IF members = <<>> THEN rs
    ELSE IF Len(members) = 1 THEN UpdateNetworkMember(rs, members[1], ring_id)
    ELSE LET h == Len(members) \div 2
             left == UpdateNetworkMembers(rs, SubSeq(members, 1, h), ring_id)
         IN  Then(left, UpdateNetworkMembers(left, SubSeq(members, h + 1, Len(members)),
                                             ring_id))

\* logic.py:287-305
RecordNetwork(g, rs, scc, h) ==
    LET k        == rs.counter + 1
        ring_id  == RingId("COMPLEX_NET_", k)
        listed   == SelectSeq(h, LAMBDA n : n \in scc)
        sorted   == SortByDegreeDesc(g, listed)
        top      == SubSeq(sorted, 1, Min(10, Len(sorted)))
        inside   == SelectSeq(EdgeList(g), LAMBDA e : e[1] \in scc /\ e[2] \in scc)
        scc_vol  == SumSeq([i \in DOMAIN inside |-> g.edge[inside[i]].amount])
        rs2 == [rs EXCEPT
                  !.counter = k,
                  !.rings = Append(@, [nodes |-> top, volume |-> scc_vol,
                                       id |-> ring_id, note |-> <<"Complex Network">>])]
    IN  UpdateNetworkMembers(rs2, listed, ring_id)

\* logic.py:260-305 for one component
RecordScc(g, rs, scc, h) ==
    IF Cardinality(scc) <= MAX_SCC_SIZE_FOR_EXACT_SEARCH
    THEN RecordCycles(g, rs, SimpleCycles(g, scc, h))
    ELSE RecordNetwork(g, rs, scc, h)

RECURSIVE RecordSccs(_, _, _, _)
RecordSccs(g, rs, sccs, h) ==
    IF sccs = <<>> THEN rs
    ELSE LET first == RecordScc(g, rs, sccs[1], h)
         IN  Then(first, RecordSccs(g, first, Tail(sccs), h))

\* node_rings copied to the nodes, logic.py:311-312, keeping one ring per node.
SetRingsFirstOnly(rs) ==
    [n \in DOMAIN rs.attrs |->
        IF n \in DOMAIN rs.node_rings
        THEN [rs.attrs[n] EXCEPT !.rings = SubSeq(rs.node_rings[n], 1, 1)]
        ELSE rs.attrs[n]]

\* logic.py:311-312
SetRings(rs) ==
    [n \in DOMAIN rs.attrs |->
        IF n \in DOMAIN rs.node_rings
        THEN [rs.attrs[n] EXCEPT !.rings = rs.node_rings[n]]
        ELSE rs.attrs[n]]

\* The whole of logic.py:246-312
DetectRingsOn(g, at, h) == RecordSccs(g, RingStart(at), NontrivialSccs(g), h)

\* The nodes whose set iteration order the ring detector depends on
RingNodes(g) ==
    UNION {c \in Range(StronglyConnectedComponents(g)) : Cardinality(c) > 1}

----------------------------------------------------------------------------
(* 7-8. Dataset statistics, logic.py:31-62 and :314-324 *)

RECURSIVE LeadingDigit(_)
LeadingDigit(n) == IF n < 10 THEN n ELSE LeadingDigit(n \div 10)

\* log10(1 + 1/d) in units of 1e-4
BenfordExpected == <<3010, 1761, 1249, 969, 792, 669, 580, 512, 458>>

\* _benford_deviation in units of 1e-4, of amounts in hundredths: the guard
\* is on len(amounts), the frequencies are over the amounts >= 1 (all zero
\* when there is none), the digit is the first one of int(a).
BenfordDeviation(amounts) ==
    IF Len(amounts) < 100 THEN 0
    ELSE LET big   == SelectSeq(amounts, LAMBDA a : a >= 100)
             total == Len(big)
             freq(d) == IF total = 0 THEN 0
                        ELSE (10000 * Len(SelectSeq(big, LAMBDA a : LeadingDigit(a \div 100) = d)))
                             \div total
         IN  SumSeq([d \in 1..9 |->
                 ((freq(d) - BenfordExpected[d]) * (freq(d) - BenfordExpected[d]))
                 \div BenfordExpected[d]])

BenfordStatus(dev) ==
    IF dev > 500 THEN "Suspicious"
    ELSE IF dev > 200 THEN "Slight deviation"
    ELSE "Normal"

\* _detect_structuring, logic.py:58-62
DetectStructuring(amounts) ==
    SelectSeq(amounts, LAMBDA a : STRUCTURING_BAND_LOW <= a /\ a < STRUCTURING_THRESHOLD)

----------------------------------------------------------------------------
(* 9-12. Result assembly, logic.py:326-425 *)

\* sep.join(items): the items with sep between neighbours; nothing for no items
Join(sep, items) ==
    [i \in 1..(2 * Len(items) - 1) |-> IF i % 2 = 1 THEN items[(i + 1) \div 2] ELSE sep]

\* The joined flags without the default text.
ReasonNoDefault(flags) == Join("; ", flags)

\* "; ".join(flags) or "Low-level anomaly", logic.py:340
Reason(flags) ==
    LET joined == Join("; ", flags)
    IN  IF Len(joined) = 0 THEN <<"Low-level anomaly">> ELSE joined


AccountEntry(node, a) ==
    [id |-> node, risk_score |-> a.risk_score, type |-> a.type,
     pagerank |-> a.pagerank, in_volume |-> a.in_volume, out_volume |-> a.out_volume,
     flags |-> a.flags, rings |-> a.rings, reason |-> Reason(a.flags)]

\* list.sort(key=risk_score, reverse=True): stable, accounts of equal score
\* keep the order they were appended in.
SortByRiskDesc(s) ==
    LET ord == StableOrder([i \in DOMAIN s |-> 0 - s[i].risk_score])
    IN  Listed([k \in DOMAIN s |-> s[ord[k]]])

SuspiciousAccountsAll(g, at) ==
    SortByRiskDesc([i \in DOMAIN g.nodes |-> AccountEntry(g.nodes[i], at[g.nodes[i]])])

\* logic.py:327-344
SuspiciousAccounts(g, at) ==
    LET sus == SelectSeq(g.nodes, LAMBDA n : at[n].suspicious)
    IN  SortByRiskDesc([i \in DOMAIN sus |-> AccountEntry(sus[i], at[sus[i]])])

\* logic.py:347-356
FormatRing(ring) ==
    [ring_id |-> ring.id, member_accounts |-> ring.nodes,
     member_count |-> Len(ring.nodes), cycle_volume |-> ring.volume,
     pattern_type |-> "Circular Flow", risk_score |-> 90]

\* logic.py:360-375
NodeElement(node, a) ==
    [data |-> [id |-> node, risk_score |-> a.risk_score, type |-> a.type,
               suspicious |-> a.suspicious, pagerank |-> a.pagerank,
               rings |-> a.rings, flags |-> a.flags,
               in_volume |-> a.in_volume, out_volume |-> a.out_volume]]

\* logic.py:377-389
EdgeElement(g, at, e) ==
    [data |-> [source |-> e[1], target |-> e[2], amount |-> g.edge[e].amount,
               count |-> g.edge[e].count, timestamp |-> g.edge[e].timestamp,
               suspicious |-> at[e[1]].suspicious \/ at[e[2]].suspicious]]

Elements(g, at) ==
    [i \in DOMAIN g.nodes |-> NodeElement(g.nodes[i], at[g.nodes[i]])]
    \o [i \in DOMAIN EdgeList(g) |-> EdgeElement(g, at, EdgeList(g)[i])]

\* logic.py:392-407
Metrics(g, at, rows, rings, accounts) ==
    LET amounts == [i \in DOMAIN rows |-> rows[i].amount]
        risks   == [i \in DOMAIN g.nodes |-> at[g.nodes[i]].risk_score]
        n       == Len(g.nodes)
        dev     == BenfordDeviation([i \in DOMAIN rows |-> 100 * rows[i].amount])
        structured == DetectStructuring(amounts)
    IN  [total_nodes          |-> n,
         total_edges          |-> Len(EdgeList(g)),
         total_transactions   |-> Len(rows),
         total_volume         |-> SumSeq(amounts),
         suspicious_count     |-> Len(accounts),
         rings_count          |-> Len(rings),
         high_risk_count      |-> Len(SelectSeq(risks, LAMBDA r : r >= HIGH_RISK_THRESHOLD)),
         avg_risk_score_x100  |-> (100 * SumSeq(risks)) \div Max(n, 1),
         benford_status       |-> BenfordStatus(dev),
         benford_deviation    |-> dev,
         structuring_pct_x10  |-> (2000 * Len(structured) + Max(Len(rows), 1))
                                  \div (2 * Max(Len(rows), 1)),
         structured_txn_count |-> Len(structured)]

\* The returned dict, logic.py:409-425
Document(g, at, rows, rings) ==
    LET accounts  == SuspiciousAccounts(g, at)
        formatted == [i \in DOMAIN rings |-> FormatRing(rings[i])]
        metrics   == Metrics(g, at, rows, formatted, accounts)
    IN  [elements            |-> Elements(g, at),
         metrics             |-> metrics,
         flagged_accounts    |-> accounts,
         fraud_rings         |-> formatted,
         suspicious_accounts |-> accounts,
         summary |-> [total_nodes        |-> metrics.total_nodes,
                      total_transactions |-> metrics.total_transactions,
                      suspicious_count   |-> metrics.suspicious_count,
                      rings_count        |-> metrics.rings_count,
                      benford_status     |-> metrics.benford_status,
                      high_risk_count    |-> metrics.high_risk_count,
                      structuring_pct_x10 |-> metrics.structuring_pct_x10]]

----------------------------------------------------------------------------
(* Inputs *)

A == <<"A">>
B == <<"B">>
C == <<"C">>
D == <<"D">>

\* The rows the free part of a batch is drawn from: a 3-cycle of balanced
\* transfers, a second smaller transfer on one of its pairs with another
\* timestamp, and one row for each defect the cleaning handles.
RowDomain ==
    { Row(A, B, Num(1000), <<0>>),
      Row(B, C, Num(1000), <<0>>),
      Row(C, A, Num(1000), <<0>>),
      Row(A, B, Num(100), <<30>>),
      Row(<<" ", "C">>, <<"B", " ">>, Num(-9000), NoTs),
      Row(<<"A", " ">>, <<" ", "A">>, Num(1000), NoTs),
      Row(C, A, Num(0), <<0>>),
      Row(A, C, Unparseable, <<0>>) }

FreeBatches == UNION {[1..n -> RowDomain] : n \in 0..MaxRows}

\* What a batch starts with: nothing, a feeder account outside the cycle, a
\* sink account outside the cycle, or the 3-cycle in the opposite direction.
BaseBatches ==
    { <<>>,
      <<Row(D, A, Num(1000), <<0>>)>>,
      <<Row(A, D, Num(1000), <<0>>)>>,
      <<Row(B, A, Num(1000), <<0>>), Row(C, B, Num(1000), <<0>>),
        Row(A, C, Num(1000), <<0>>)>> }

Batches == {b \o f : b \in BaseBatches, f \in FreeBatches}

RerunBatches ==
    {b \o f : b \in BaseBatches, f \in UNION {[1..n -> RowDomain] : n \in 0..MaxRerunRows}}

\* Accounts of the larger scenarios: a letter and a three-digit number.
Acct(letter, i) ==
    <<letter, DigitChars[((i \div 100) % 10) + 1], DigitChars[((i \div 10) % 10) + 1],
      DigitChars[(i % 10) + 1]>>

\* n accounts passing amt round a directed cycle
RingRows(letter, n, amt) ==
    [i \in 1..n |-> Row(Acct(letter, i), Acct(letter, (i % n) + 1), Num(amt), NoTs)]

\* Transfers back from account 1 of a ring to its accounts j+1, j+2, ...:
\* chords that raise the degree of account 1 and of their targets.
ChordRows(letter, from, targets, amt) ==
    [i \in 1..Len(targets) |->
        Row(Acct(letter, from), Acct(letter, targets[i]), Num(amt), NoTs)]

\* n senders each sending amt to one receiver
FanInRows(letter, n, receiver, amt) ==
    [i \in 1..n |-> Row(Acct(letter, i), receiver, Num(amt), NoTs)]

\* The orders in which a Python set of the strings in S may be iterated: every
\* order for a small set; for a large one the order of the sequence nodes
\* (which holds S), its reverse, and the odd positions before the even ones.
HashOrders(S, nodes) ==
    IF Cardinality(S) <= MaxHashed THEN SeqPerms(S)
    ELSE LET s   == SelectSeq(nodes, LAMBDA n : n \in S)
             k   == Len(s)
             odd == (k + 1) \div 2
         IN  { s,
               [i \in 1..k |-> s[k + 1 - i]],
               [i \in 1..k |-> IF i <= odd THEN s[2 * i - 1] ELSE s[2 * (i - odd)]] }

\* Two transfers through a middle account: cin in, cout out
MuleRows(letter, cin, cout) ==
    << Row(Acct(letter, 1), Acct(letter, 2), Num(cin), NoTs),
       Row(Acct(letter, 2), Acct(letter, 3), Num(cout), NoTs) >>

\* One sender per amount, all sending to account 0 of the letter
StructuringRows(letter, amounts) ==
    [i \in 1..Len(amounts) |->
        Row(Acct(letter, i), Acct(letter, 0), Num(amounts[i]), NoTs)]

\* Eleven senders of 500 to M000, which sends 5000 on to K000
SmurfRows ==
    FanInRows("S", 11, Acct("M", 0), 500)
        \o << Row(Acct("M", 0), Acct("K", 0), Num(5000), NoTs) >>

\* A strongly connected component above the size of the exact search: a
\* directed cycle with three chords from its first account.
NetworkRows ==
    RingRows("N", NetworkNodes, 1000) \o ChordRows("N", 1, <<3, 4, 5>>, 700)

\* Everything at once.  In a graph of this size no account has a PageRank
\* above the kingpin threshold, so the points of the other heuristics show
\* without the cap: receivers of 2, 3, 5, 7 and 8 near-threshold transfers, a
\* receiver of amounts on the edges of the band, three pass-through chains
\* and the smurfing star, next to a 3-cycle, the network and an 8-cycle.
MixedRows ==
    RingRows("A", 3, 1000) \o NetworkRows \o RingRows("E", 8, 1000)
        \o StructuringRows("T", <<9500, 9500>>)
        \o StructuringRows("U", <<9500, 8000, 9999>>)
        \o StructuringRows("V", <<9500, 9500, 9500, 9500, 9500>>)
        \o StructuringRows("W", <<9500, 9500, 9500, 9500, 9500, 9500, 9500>>)
        \o StructuringRows("Y", <<9500, 9500, 9500, 9500, 9500, 9500, 9500, 9500>>)
        \o StructuringRows("Z", <<7999, 10000, 8000, 9999, 500>>)
        \o MuleRows("X", 10000, 9500) \o MuleRows("P", 1150, 850)
        \o MuleRows("Q", 1160, 840) \o SmurfRows

ScenarioBatches ==
    LET \* n senders to account 0 of the letter, one transfer every step minutes
        TimedFanIn(letter, n, step) ==
            [i \in 1..n |-> Row(Acct(letter, i), Acct(letter, 0), Num(100), <<step * i>>)]
        \* account 0 of the letter sending to n recipients
        FanOut(letter, n) ==
            [i \in 1..n |-> Row(Acct(letter, 0), Acct(letter, i), Num(100), NoTs)]
    IN
    { RingRows("A", 3, 1000),
      RingRows("P", 2, 1000),
      RingRows("E", 8, 1000),
      RingRows("F", 9, 1000),
      RingRows("A", 3, 1000) \o RingRows("E", 4, 200),
      SmurfRows,
      StructuringRows("R", <<9500, 9500>>),
      StructuringRows("R", <<9500, 9500, 9500, 9500, 9500>>),
      MuleRows("X", 10000, 9500),
      MuleRows("X", 1150, 850),
      MuleRows("X", 1160, 840),
      MuleRows("X", 500, 500),
      NetworkRows,
      MixedRows,
      \* three transfers of 9500 from one sender to one receiver
      [i \in 1..3 |-> Row(Acct("S", 1), Acct("R", 0), Num(9500), NoTs)],
      \* 5 transfers within 5 minutes, 21 within 21 minutes, 21 within 2 hours
      TimedFanIn("R", 5, 1),
      TimedFanIn("R", 21, 1),
      TimedFanIn("R", 21, 6),
      \* ten disjoint cycles of 3 to 5 accounts
      RingRows("A", 3, 1000) \o RingRows("B", 4, 1000) \o RingRows("C", 5, 1000)
          \o RingRows("D", 3, 500) \o RingRows("E", 4, 500) \o RingRows("F", 5, 500)
          \o RingRows("H", 3, 200) \o RingRows("I", 4, 200) \o RingRows("J", 5, 200)
          \o RingRows("L", 3, 100),
      \* senders without income to 20 and to 21 recipients in a large batch,
      \* and a cycle of 4 with a chord: two cycles sharing three accounts
      NetworkRows \o FanOut("K", 20) \o FanOut("L", 21)
          \o RingRows("E", 4, 200) \o ChordRows("E", 1, <<3>>, 200) }

----------------------------------------------------------------------------
(* 5. Community detection, logic.py:139-153 *)

\* What louvain_communities does when it is called: it returns a partition,
\* it raises, or networkx has no such function (HAS_LOUVAIN is False,
\* logic.py:13-17).
LouvainRuns == {"returns", "raises", "unavailable"}

LOUVAIN_NODE_LIMIT == 50000

\* The partition louvain_communities returns is not computed here: the
\* label is only copied to the node (logic.py:236).
LouvainPartition == "louvain_communities"

\* The loop of nx.weakly_connected_components over the edges es: comp[i] is
\* the position in G.nodes of the first node of the component of node i.
RECURSIVE MergeEdges(_, _, _)
MergeEdges(g, comp, es) ==
    LET At(n) == comp[CHOOSE i \in DOMAIN g.nodes : g.nodes[i] = n]
        Merged(lo, hi) ==
            Listed([i \in DOMAIN comp |-> IF comp[i] = hi THEN lo ELSE comp[i]])
        Joined(a, b) == Merged(Min(a, b), Max(a, b))
    IN  IF es = <<>> THEN comp
        ELSE IF Len(es) = 1 THEN Joined(At(es[1][1]), At(es[1][2]))
        ELSE LET h == Len(es) \div 2
                 left == MergeEdges(g, comp, SubSeq(es, 1, h))
             IN  Then(left, MergeEdges(g, left, SubSeq(es, h + 1, Len(es))))

\* enumerate(nx.weakly_connected_components(G)), logic.py:148-150: the
\* components come in the order of their first node in G.nodes, and a node
\* gets the index of its component.
WeakComponentIndex(g) ==
    LET comp == MergeEdges(g, Listed([i \in DOMAIN g.nodes |-> i]), EdgeList(g))
    IN  [i \in DOMAIN g.nodes |-> Cardinality({comp[j] : j \in {k \in DOMAIN comp : comp[k] < comp[i]}})]

\* logic.py:140-153
CommunityMap(g, run_of_louvain) ==
    IF run_of_louvain # "unavailable" /\ Len(g.nodes) < LOUVAIN_NODE_LIMIT
    THEN IF run_of_louvain = "raises"
         THEN [n \in NodeSet(g) |-> 0]
         ELSE [n \in NodeSet(g) |-> LouvainPartition]
    ELSE LET index == Listed(WeakComponentIndex(g))
         IN  [n \in NodeSet(g) |-> index[CHOOSE i \in DOMAIN g.nodes : g.nodes[i] = n]]

----------------------------------------------------------------------------
(* The stages of one call *)

NotRun == <<>>

Start(b) ==
    /\ pc = "clean"
    /\ batch = b
    /\ df = <<>>
    /\ G = EmptyGraph
    /\ pagerank = <<>>
    /\ pr_iter = 0
    /\ attrs = <<>>
    /\ fraud_rings = <<>>
    /\ hashOrder = <<>>
    /\ result = NotRun
    /\ run = 1
    /\ prev = NotRun
    /\ request = NotRun
    /\ response = 0
    /\ frame = NotRun
    /\ community_map = NotRun
    /\ series = <<>>
    /\ deviation = NotRun

Init == \E b \in Batches : Start(b) /\ louvain = "returns"

\* logic.py:98-108
Clean ==
    /\ pc = "clean"
    /\ df' = CleanRows(batch)
    /\ IF df' = <<>>
       THEN pc' = "done" /\ result' = EmptyDoc
       ELSE pc' = "build" /\ result' = result
    /\ UNCHANGED <<batch, G, pagerank, pr_iter, attrs, fraud_rings, hashOrder, run, prev, request, response, frame, louvain, community_map, series, deviation>>

\* logic.py:110-131
BuildGraph ==
    /\ pc = "build"
    /\ G' = BuildGraphFrom(df)
    /\ attrs' = [n \in NodeSet(G') |-> InitialAttrs]
    /\ pagerank' = UniformRank(G')
    /\ pr_iter' = 0
    /\ pc' = "pagerank"
    /\ UNCHANGED <<batch, df, fraud_rings, hashOrder, result, run, prev, request, response, frame, louvain, community_map, series, deviation>>

\* logic.py:133-137: one round of the power iteration inside nx.pagerank.
\* It returns the iterate once it has converged; after PR_MAX_ITER rounds
\* without convergence it raises and the except clause gives the uniform
\* vector.
PageRank ==
    /\ pc = "pagerank"
    /\ \E y \in {PowerStep(G, pagerank)} :
           IF Converged(G, pagerank, y)
           THEN pagerank' = y /\ pr_iter' = pr_iter /\ pc' = "community"
           ELSE IF pr_iter + 1 >= PR_MAX_ITER
           THEN pagerank' = UniformRank(G) /\ pr_iter' = pr_iter /\ pc' = "community"
           ELSE pagerank' = y /\ pr_iter' = pr_iter + 1 /\ pc' = "pagerank"
    /\ UNCHANGED <<batch, df, G, attrs, fraud_rings, hashOrder, result, run, prev, request, response, frame, louvain, community_map, series, deviation>>

\* logic.py:139-153
Community ==
    /\ pc = "community"
    /\ community_map' = CommunityMap(G, louvain)
    /\ pc' = "score"
    /\ UNCHANGED <<batch, df, G, pagerank, pr_iter, attrs, fraud_rings, hashOrder, result, run, prev,
                   request, response, frame, louvain, series, deviation>>

\* logic.py:155-244
Score ==
    /\ pc = "score"
    /\ attrs' = LET q95 == Quantile95x100(df)
                IN  [n \in NodeSet(G) |-> ScoreNode(G, pagerank, q95, n)]
    /\ pc' = "rings"
    /\ UNCHANGED <<batch, df, G, pagerank, pr_iter, fraud_rings, hashOrder, result, run, prev, request, response, frame, louvain, community_map, series, deviation>>

\* logic.py:246-312.  The set iteration order is fixed for the life of the
\* process: it is drawn when first needed and kept by a repeated call in the
\* same process.
DetectRings ==
    /\ pc = "rings"
    /\ \E h \in (IF hashOrder # <<>> THEN {hashOrder} ELSE HashOrders(RingNodes(G), G.nodes)) :
          \E rs \in {DetectRingsOn(G, attrs, h)} :
              /\ hashOrder' = h
              /\ attrs' = SetRings(rs)
              /\ fraud_rings' = rs.rings
    /\ pc' = "assemble"
    /\ UNCHANGED <<batch, df, G, pagerank, pr_iter, result, run, prev, request, response, frame, louvain, community_map, series, deviation>>

\* logic.py:314-425
Assemble ==
    /\ pc = "assemble"
    /\ result' = Document(G, attrs, df, fraud_rings)
    /\ pc' = "done"
    /\ UNCHANGED <<batch, df, G, pagerank, pr_iter, attrs, fraud_rings, hashOrder, run, prev, request, response, frame, louvain, community_map, series, deviation>>

Next == Clean \/ BuildGraph \/ PageRank \/ Community \/ Score \/ DetectRings \/ Assemble

Spec == Init /\ [][Next]_vars

\* The same call on the scenario batches
InitScenario == \E b \in ScenarioBatches : Start(b) /\ louvain \in LouvainRuns

SpecScenario == InitScenario /\ [][Next]_vars

----------------------------------------------------------------------------
(* A second call.  analyze_transactions keeps nothing between calls, so a  *)
(* second call starts from scratch; it may be given the same rows in       *)
(* another order, and it may run in the same process (same set iteration   *)
(* order) or in a new one.                                                 *)

SwapRows(rows, i) ==
    [k \in DOMAIN rows |->
        IF k = i THEN rows[i + 1] ELSE IF k = i + 1 THEN rows[i] ELSE rows[k]]

\* The batch itself and the batch with two neighbouring rows exchanged.
Rearrangements(rows) == {rows} \cup {SwapRows(rows, i) : i \in 1..(Len(rows) - 1)}

Rerun ==
    /\ pc = "done"
    /\ run = 1
    /\ \E b \in Rearrangements(batch), same_process \in BOOLEAN :
          /\ prev' = [batch |-> batch, hashOrder |-> hashOrder, result |-> result,
                      same_process |-> same_process]
          /\ batch' = b
          /\ hashOrder' = IF same_process THEN hashOrder ELSE <<>>
    /\ run' = 2
    /\ pc' = "clean"
    /\ df' = <<>>
    /\ G' = EmptyGraph
    /\ pagerank' = <<>>
    /\ pr_iter' = 0
    /\ attrs' = <<>>
    /\ fraud_rings' = <<>>
    /\ result' = NotRun
    /\ UNCHANGED <<request, response, frame, louvain, series, deviation>>
    /\ community_map' = NotRun

NextRerun == Next \/ Rerun

InitRerun == \E b \in RerunBatches : Start(b) /\ louvain = "returns"

SpecRerun == InitRerun /\ [][NextRerun]_vars

----------------------------------------------------------------------------
(* The /analyze endpoints: src/backend/main.py:83-127 and                  *)
(* src/main.py:179-198, from the upload to the point where the handler     *)
(* starts its own analysis of the DataFrame.  A column name is a sequence  *)
(* of blanks and words; an amount cell is the text between the commas of   *)
(* the CSV, a sequence of characters, empty for a missing value.           *)

\* Rows of an upload
MaxCells == 2

Requests ==
    [ app       : {"backend", "root"},
      csv_name  : BOOLEAN,
      readable  : BOOLEAN,
      ids       : { <<>>, << <<"sender_id">> >>, << <<"target">> >>,
                    << <<"sender_id">>, <<"receiver_id">> >>,
                    << <<"source">>, <<"target">> >>,
                    << <<" ", "sender_id">>, <<"receiver_id", " ">> >> },
      amount    : { <<>>, << <<"amount">> >>, << <<" ", "amount">> >> },
      cells     : UNION { [1..n -> { <<"1", "0", "0", "0">>,
                                     <<"$", "1", ",", "0", "0", "0", ".", "0", "0">>,
                                     <<"2", ",", "0", "0", "0", ".", "0", "0">>,
                                     <<"a", "b", "c">>,
                                     <<>> }] : n \in 1..MaxCells } ]

\* str.replace(r'[$,\s]', '', regex=True), backend/main.py:126
StripPunctuation(cell) == SelectSeq(cell, LAMBDA c : c \notin {"$", ",", " "})

\* The conversion of a cell to a float: digits with at most one decimal
\* point.  v is the number in hundredths.
FloatText(cell) ==
    LET dots  == {i \in DOMAIN cell : cell[i] = "."}
        ok    == /\ \A i \in DOMAIN cell : cell[i] \in Range(DigitChars) \cup {"."}
                 /\ Cardinality(dots) <= 1
                 /\ Cardinality(dots) < Len(cell)
        dot   == IF dots = {} THEN Len(cell) + 1 ELSE CHOOSE i \in dots : TRUE
        digit == [i \in DOMAIN cell |->
                     IF cell[i] = "." THEN 0
                     ELSE (CHOOSE d \in DOMAIN DigitChars : DigitChars[d] = cell[i]) - 1]
        whole == SumSeq([i \in 1..(dot - 1) |-> digit[i] * 10 ^ (dot - 1 - i)])
        cents == SumSeq([k \in 1..2 |->
                     IF dot + k <= Len(cell) THEN digit[dot + k] * 10 ^ (2 - k) ELSE 0])
    IN  [ok |-> ok, v |-> IF ok THEN 100 * whole + cents ELSE 0]

\* The handler of src/backend/main.py up to its graph building: the status
\* it raises, or 0 and the DataFrame it goes on with.
BackendAnalyze(req) ==
    LET header   == req.ids \o req.amount
        \* :94-105 read_csv with dtype {'amount': 'float32'}: the dtype
        \* applies to a column named exactly 'amount'; a cell that is
        \* neither empty nor a float makes read_csv raise.
        typed    == <<"amount">> \in Range(header)
        numeric  == \A i \in DOMAIN req.cells :
                        req.cells[i] = <<>> \/ FloatText(req.cells[i]).ok
        loaded   == req.readable /\ (typed => numeric)
        dtype    == IF numeric THEN "float" ELSE "object"
        \* :110-119 strip the names, rename sender_id and receiver_id
        stripped == [i \in DOMAIN header |-> Strip(header[i])]
        columns  == [i \in DOMAIN stripped |->
                        IF stripped[i] = <<"sender_id">> THEN <<"source">>
                        ELSE IF stripped[i] = <<"receiver_id">> THEN <<"target">>
                        ELSE stripped[i]]
        \* :125-127 clean and coerce the amount column
        text     == [i \in DOMAIN req.cells |->
                        IF dtype = "object" THEN StripPunctuation(req.cells[i])
                        ELSE req.cells[i]]
        amount   == [i \in DOMAIN text |-> FloatText(text[i]).v]
    IN  IF ~loaded THEN [status |-> 400, frame |-> NotRun]
        ELSE IF <<"source">> \notin Range(columns) \/ <<"target">> \notin Range(columns)
        THEN [status |-> 400, frame |-> NotRun]
        ELSE IF <<"amount">> \notin Range(columns)
        THEN [status |-> 500, frame |-> NotRun]
        ELSE [status |-> 0, frame |-> [columns |-> columns, amount |-> amount]]

\* The handler of src/main.py up to its call of analyze_fraud_graph
RootAnalyze(req) ==
    LET header   == req.ids \o req.amount
        stripped == [i \in DOMAIN header |-> Strip(header[i])]
    IN  IF ~req.csv_name THEN [status |-> 400, frame |-> NotRun]
        ELSE IF ~req.readable THEN [status |-> 400, frame |-> NotRun]
        ELSE IF ~({<<"sender_id">>, <<"receiver_id">>, <<"amount">>} \subseteq Range(stripped))
        THEN [status |-> 400, frame |-> NotRun]
        ELSE [status |-> 0, frame |-> [columns |-> stripped, amount |-> req.cells]]

\* What a handler leaves: a response, or the DataFrame for its analysis
Handled(out) ==
    /\ response' = out.status
    /\ frame' = out.frame
    /\ pc' = IF out.status = 0 THEN "analysis" ELSE "responded"
    /\ UNCHANGED <<batch, df, G, pagerank, pr_iter, attrs, fraud_rings, hashOrder,
                   result, run, prev, request, louvain, community_map, series, deviation>>

\* backend/main.py:83-127
AnalyzeBackend == pc = "request" /\ request.app = "backend" /\ Handled(BackendAnalyze(request))

\* main.py:179-198
AnalyzeRoot == pc = "request" /\ request.app = "root" /\ Handled(RootAnalyze(request))

InitUpload ==
    /\ pc = "request"
    /\ request \in Requests
    /\ response = 0
    /\ frame = NotRun
    /\ batch = <<>> /\ df = <<>> /\ G = EmptyGraph /\ pagerank = <<>> /\ pr_iter = 0
    /\ attrs = <<>> /\ fraud_rings = <<>> /\ hashOrder = <<>> /\ result = NotRun
    /\ run = 1 /\ prev = NotRun
    /\ louvain = "returns" /\ community_map = NotRun /\ series = <<>> /\ deviation = NotRun

NextUpload == AnalyzeBackend \/ AnalyzeRoot

SpecUpload == InitUpload /\ [][NextUpload]_vars

----------------------------------------------------------------------------
(* The Benford check on its own, logic.py:314-320, on columns of amounts   *)
(* that may be below 1: an amount is given in hundredths.                  *)

MaxSeries == 101

\* Columns of cleaned amounts: some amounts of 1 and more (1.25, 2.25, ...)
\* followed by some amounts of 0.50.
BenfordSeries ==
    LET Column(large, small) ==
            [i \in 1..(large + small) |-> IF i <= large THEN 100 * i + 25 ELSE 50]
    IN  UNION { {Column(large, n - large) : large \in 0..n} : n \in 0..MaxSeries }

InitBenford ==
    /\ pc = "benford"
    /\ series \in BenfordSeries
    /\ deviation = NotRun
    /\ louvain = "returns" /\ community_map = NotRun
    /\ request = NotRun /\ response = 0 /\ frame = NotRun
    /\ batch = <<>> /\ df = <<>> /\ G = EmptyGraph /\ pagerank = <<>> /\ pr_iter = 0
    /\ attrs = <<>> /\ fraud_rings = <<>> /\ hashOrder = <<>> /\ result = NotRun
    /\ run = 1 /\ prev = NotRun

\* logic.py:315-320
BenfordCheck ==
    /\ pc = "benford"
    /\ deviation' = LET dev == BenfordDeviation(series)
                    IN  [benford_deviation |-> dev, benford_status |-> BenfordStatus(dev)]
    /\ pc' = "checked"
    /\ UNCHANGED <<batch, df, G, pagerank, pr_iter, attrs, fraud_rings, hashOrder, result, run, prev,
                   request, response, frame, louvain, community_map, series>>

NextBenford == BenfordCheck

SpecBenford == InitBenford /\ [][NextBenford]_vars

----------------------------------------------------------------------------
(* Properties *)

Done == pc = "done"

\* The data of the node elements, and of the edge elements, of a document
NodeData(doc) ==
    LET es == SelectSeq(doc.elements, LAMBDA e : "id" \in DOMAIN e.data)
    IN  [i \in DOMAIN es |-> es[i].data]

EdgeData(doc) ==
    LET es == SelectSeq(doc.elements, LAMBDA e : "source" \in DOMAIN e.data)
    IN  [i \in DOMAIN es |-> es[i].data]

\* The rows of the input the Normalizer is to keep, stated on the raw cells:
\* the amount parses and is not zero, and the trimmed identifiers differ.
KeptIndices(rows) ==
    {i \in DOMAIN rows :
        /\ rows[i].amount.ok
        /\ rows[i].amount.v # 0
        /\ Strip(rows[i].source) # Strip(rows[i].target)}

Scored == pc \in {"rings", "assemble", "done"} /\ df # <<>>

C2_SuspiciousIffScoreOrFlags ==
    /\ Scored => \A n \in DOMAIN attrs :
                    attrs[n].suspicious <=>
                        (attrs[n].risk_score > 10 \/ attrs[n].flags # <<>>)
    /\ Done => \A i \in DOMAIN NodeData(result) :
                    NodeData(result)[i].suspicious <=>
                        (NodeData(result)[i].risk_score > 10
                         \/ NodeData(result)[i].flags # <<>>)

\* A returned document with a node updated by the ring detector and a node
\* that is suspicious without any flag (only the PageRank points of
\* detector D).
C2_Witness ==
    /\ Done
    /\ \E j, k \in DOMAIN NodeData(result) :
          /\ NodeData(result)[j].rings # <<>>
          /\ NodeData(result)[k].suspicious
          /\ NodeData(result)[k].flags = <<>>
          /\ NodeData(result)[k].risk_score > 10

\* C3: for every node of the final result, type = ring_member if and only if
\* its rings list is non-empty.
C3_RingMemberIffRings ==
    Done => \A i \in DOMAIN NodeData(result) :
                (NodeData(result)[i].type = "ring_member")
                    <=> (NodeData(result)[i].rings # <<>>)

\* C4: flagged_accounts is sorted by risk_score descending, accounts of equal
\* risk_score in ascending order of their id string.
C4_FlaggedSortedByRiskThenId ==
    Done => \A i, j \in DOMAIN result.flagged_accounts :
                i < j =>
                    LET a == result.flagged_accounts[i]
                        b == result.flagged_accounts[j]
                    IN  \/ a.risk_score > b.risk_score
                        \/ a.risk_score = b.risk_score /\ StrLess(a.id, b.id)

\* A document with its lists sorted: the node records, the edge records, the
\* rings with their members, the metrics.
Sorted(doc) ==
    [nodes |-> {[id |-> n.id, risk_score |-> n.risk_score, type |-> n.type,
                 flags |-> Range(n.flags), rings |-> Range(n.rings)] :
                    n \in Range(NodeData(doc))},
     edges |-> {[source |-> e.source, target |-> e.target, amount |-> e.amount,
                 count |-> e.count, timestamp |-> e.timestamp] :
                    e \in Range(EdgeData(doc))},
     rings |-> {[ring_id |-> r.ring_id, members |-> Range(r.member_accounts),
                 cycle_volume |-> r.cycle_volume] : r \in Range(doc.fraud_rings)},
     metrics |-> doc.metrics]

\* C5: permuting the rows of the batch leaves the result unchanged once its
\* lists are sorted.  Stated for a second call in the same process, on the
\* rows of the first call in another order.
C5_PermutationInvariant ==
    (Done /\ run = 2 /\ prev.same_process) => Sorted(result) = Sorted(prev.result)

\* C6: two calls on the same batch return identical documents.
C6_RepeatedCallIdentical ==
    (Done /\ run = 2 /\ batch = prev.batch) => result = prev.result

C8_EdgeAndTransactionCounts ==
    (Done /\ KeptIndices(batch) # {}) =>
        /\ result.metrics.total_edges =
              Cardinality({<<Strip(batch[i].source), Strip(batch[i].target)>> :
                              i \in KeptIndices(batch)})
        /\ result.metrics.total_transactions = Cardinality(KeptIndices(batch))

\* A returned document for a batch with a dropped row and two kept rows on
\* the same ordered pair.
C8_Witness ==
    /\ Done
    /\ KeptIndices(batch) # DOMAIN batch
    /\ result # EmptyDoc
    /\ result.metrics.total_edges < result.metrics.total_transactions
    /\ result.metrics.total_edges >= 2

\* C9: in a non-empty result suspicious_count is the number of node elements
\* with suspicious = true and high_risk_count the number with
\* risk_score >= 70, on the node state after ring detection.
C9_SuspiciousAndHighRiskCounts ==
    (Done /\ KeptIndices(batch) # {}) =>
        /\ result.metrics.suspicious_count =
              Cardinality({i \in DOMAIN NodeData(result) : NodeData(result)[i].suspicious})
        /\ result.metrics.high_risk_count =
              Cardinality({i \in DOMAIN NodeData(result) :
                              NodeData(result)[i].risk_score >= HIGH_RISK_THRESHOLD})

\* A returned document with a ring, whose members ring detection made
\* suspicious and high-risk, and with a node that is not suspicious.
C9_Witness ==
    /\ Done
    /\ result # EmptyDoc
    /\ result.metrics.rings_count >= 1
    /\ result.metrics.high_risk_count >= 3
    /\ result.metrics.suspicious_count < result.metrics.total_nodes

\* C10: when no row survives cleaning the call returns the empty document
\* and no later stage runs.
C10_EmptyInputEmptyDocument ==
    KeptIndices(batch) = {} =>
        /\ pc \in {"clean", "done"}
        /\ Done => /\ result = EmptyDoc
                   /\ G = EmptyGraph
                   /\ attrs = <<>>
                   /\ pagerank = <<>>
                   /\ fraud_rings = <<>>

\* A batch of defective rows only (not the empty batch), returned as the
\* empty document.
C10_Witness ==
    /\ Done
    /\ Len(batch) >= 2
    /\ KeptIndices(batch) = {}
    /\ result = EmptyDoc

----------------------------------------------------------------------------
(* Rings *)

\* The rings of the returned document
Rings == result.fraud_rings

IsCycleRing(r) == r.ring_id[1] = "RING_"

IsNetworkRing(r) == r.ring_id[1] = "COMPLEX_NET_"

RingNumber(r) == 100 * r.ring_id[2] + 10 * r.ring_id[3] + r.ring_id[4]

\* C12: ring ids are pairwise distinct and come from one counter shared by
\* simple cycles and complex networks: the k-th ring of fraud_rings carries
\* the number k padded with zeros to three digits, so the numbers strictly
\* increase along fraud_rings.
C12_RingIdsFromOneCounter ==
    Done =>
        /\ \A i \in DOMAIN Rings :
              Len(Rings[i].ring_id) = 4 /\ RingNumber(Rings[i]) = i
        /\ \A i, j \in DOMAIN Rings :
              /\ i # j => Rings[i].ring_id # Rings[j].ring_id
              /\ i < j => RingNumber(Rings[i]) < RingNumber(Rings[j])

\* A document whose second ring is a network between two cycles.
C12_Witness ==
    /\ Done
    /\ Len(Rings) = 3
    /\ IsCycleRing(Rings[1]) /\ IsNetworkRing(Rings[2]) /\ IsCycleRing(Rings[3])
    /\ Rings[2].ring_id = <<"COMPLEX_NET_", 0, 0, 2>>
    /\ Rings[3].ring_id = <<"RING_", 0, 0, 3>>

----------------------------------------------------------------------------
(* Scenarios *)

\* C13: for the rows A->B 1000, B->C 1000, C->A 1000 the result has exactly
\* one ring, RING_001, whose members are A, B, C in some rotation and whose
\* cycle_volume is 3000, and each of the three accounts is in
\* flagged_accounts with risk_score 100 and type ring_member.
C13_SimpleThreeCycle ==
    LET rows == << Row(A, B, Num(1000), <<0>>), Row(B, C, Num(1000), <<0>>),
                   Row(C, A, Num(1000), <<0>>) >>
    IN  (Done /\ batch = rows) =>
            /\ Len(Rings) = 1
            /\ Rings[1].ring_id = <<"RING_", 0, 0, 1>>
            /\ Rings[1].member_accounts \in {<<A, B, C>>, <<B, C, A>>, <<C, A, B>>}
            /\ Rings[1].cycle_volume = 3000
            /\ \A n \in {A, B, C} :
                  \E i \in DOMAIN result.flagged_accounts :
                      /\ result.flagged_accounts[i].id = n
                      /\ result.flagged_accounts[i].risk_score = 100
                      /\ result.flagged_accounts[i].type = "ring_member"

\* C14: for eleven senders each sending 500 to M, and M sending 5000 on, M
\* is flagged with the flag 'smurfing aggregator', M's type is aggregator and
\* the result holds no ring.
C14_SmurfingAggregator ==
    (Done /\ batch = SmurfRows) =>
        /\ Rings = <<>>
        /\ \E i \in DOMAIN result.flagged_accounts :
              LET m == result.flagged_accounts[i]
              IN  /\ m.id = Acct("M", 0)
                  /\ Flag("smurfing aggregator", <<>>) \in Range(m.flags)
                  /\ m.type = "aggregator"

\* The points and the flag of an account as the scorer leaves them
HasFlag(a, text) == \E i \in DOMAIN a.flags : a.flags[i][1] = text

\* The points the heuristics other than C gave an account, read off its
\* flags and its PageRank
OtherPoints(a, pr) ==
      (IF HasFlag(a, "pass-through mule") THEN 45 ELSE 0)
    + (IF HasFlag(a, "smurfing aggregator") THEN 35 ELSE 0)
    + (IF IsKingpin(pr) THEN KingpinPoints(pr) ELSE 0)
    + (IF HasFlag(a, "fan-out dispersion (N targets)") THEN 20 ELSE 0)
    + (IF HasFlag(a, "velocity burst (>20 txn/hour)") THEN 20 ELSE 0)
    + (IF HasFlag(a, "high-value isolated node (shell?)") THEN 25 ELSE 0)

\* C15: after scoring, a node with N >= 3 incoming amounts in [8000, 10000)
\* has 25 + min(5 * (N - 3), 20) points from detector C and exactly one flag
\* 'structuring (N near-threshold txns)'; a node with N < 3 has neither.
\* For five senders of 9500 to R, R has the flag with N = 5 and a
\* risk_score of at least 35, and structuring_pct is 100.0.
C15_StructuringPoints ==
    /\ pc = "rings" =>
          \A n \in NodeSet(G) :
              LET N  == Cardinality({e \in DOMAIN G.edge :
                                        /\ e[2] = n
                                        /\ 8000 <= G.edge[e].amount
                                        /\ G.edge[e].amount < 10000})
                  a  == attrs[n]
                  fs == SelectSeq(a.flags,
                            LAMBDA f : f[1] = "structuring (N near-threshold txns)")
                  other == OtherPoints(a, pagerank[n])
              IN  IF N >= 3
                  THEN /\ fs = << Flag("structuring (N near-threshold txns)", <<N>>) >>
                       /\ a.risk_score = Min(100, other + 25 + Min(5 * (N - 3), 20))
                  ELSE /\ fs = <<>>
                       /\ a.risk_score = Min(100, other)
    /\ (Done /\ batch = StructuringRows("R", <<9500, 9500, 9500, 9500, 9500>>)) =>
          /\ \E i \in DOMAIN result.flagged_accounts :
                LET r == result.flagged_accounts[i]
                IN  /\ r.id = Acct("R", 0)
                    /\ Flag("structuring (N near-threshold txns)", <<5>>) \in Range(r.flags)
                    /\ r.risk_score >= 35
          /\ result.metrics.structuring_pct_x10 = 1000

\* The scorer has run on the mixed batch: the receiver of five near-threshold
\* amounts has exactly 35 points, those of seven and of eight have 45, the
\* receiver of three has 25, and the receivers of two have no structuring flag.
C15_Witness ==
    /\ pc = "rings"
    /\ batch = MixedRows
    /\ attrs[Acct("V", 0)].risk_score = 35
    /\ attrs[Acct("V", 0)].flags = << Flag("structuring (N near-threshold txns)", <<5>>) >>
    /\ attrs[Acct("W", 0)].risk_score = 45
    /\ attrs[Acct("Y", 0)].risk_score = 45
    /\ attrs[Acct("Y", 0)].flags = << Flag("structuring (N near-threshold txns)", <<8>>) >>
    /\ attrs[Acct("U", 0)].risk_score = 25
    /\ attrs[Acct("T", 0)].flags = <<>>
    /\ attrs[Acct("Z", 0)].flags = <<>>

\* C16: for every strongly connected component of more than 100 nodes no
\* cycle is enumerated and the result holds exactly one ring: a COMPLEX_NET_
\* id, exactly 10 member accounts of the highest total degree, the note
\* 'Complex Network' and as volume the sum of the edge amounts inside the
\* component; every node of the component ends with risk_score 100,
\* suspicious and type ring_member.
C16_ComplexNetwork ==
    (Done /\ Len(G.nodes) > MAX_SCC_SIZE_FOR_EXACT_SEARCH) =>
        \A k \in DOMAIN NontrivialSccs(G) :
            LET scc    == NontrivialSccs(G)[k]
                of_scc == {i \in DOMAIN Rings : Range(Rings[i].member_accounts) \subseteq scc}
                inside == SelectSeq(EdgeList(G), LAMBDA e : e[1] \in scc /\ e[2] \in scc)
                degree == [n \in scc |-> InDegree(G, n) + OutDegree(G, n)]
            IN  Cardinality(scc) > MAX_SCC_SIZE_FOR_EXACT_SEARCH =>
                    /\ Cardinality(of_scc) = 1
                    /\ \A i \in of_scc :
                          /\ IsNetworkRing(Rings[i])
                          /\ Len(Rings[i].member_accounts) = 10
                          /\ \A m \in Range(Rings[i].member_accounts) :
                                \A x \in scc \ Range(Rings[i].member_accounts) :
                                    degree[m] >= degree[x]
                          /\ Rings[i].cycle_volume
                                = SumSeq([j \in DOMAIN inside |-> G.edge[inside[j]].amount])
                          /\ "note" \in DOMAIN Rings[i]
                          /\ Rings[i].note = "Complex Network"
                    /\ \A j \in DOMAIN NodeData(result) :
                          NodeData(result)[j].id \in scc =>
                              /\ NodeData(result)[j].risk_score = 100
                              /\ NodeData(result)[j].suspicious
                              /\ NodeData(result)[j].type = "ring_member"

\* C17: after scoring, a node has the flag 'pass-through mule', its 45
\* points and type mule exactly when in_volume > 500, out_volume > 500 and
\* |in_volume - out_volume| / (in_volume + out_volume) < 0.15.  For X -> M
\* 10000, M -> Y 9500, M is flagged with type mule and risk_score >= 45.
C17_PassThroughMule ==
    /\ pc = "rings" =>
          \A n \in NodeSet(G) :
              LET a  == attrs[n]
                  ci == a.in_volume
                  co == a.out_volume
              IN  IF ci > 500 /\ co > 500 /\ 100 * AbsInt(ci - co) < 15 * (ci + co)
                  THEN /\ HasFlag(a, "pass-through mule")
                       /\ a.type = "mule"
                       /\ a.risk_score >= 45
                  ELSE /\ ~HasFlag(a, "pass-through mule")
                       /\ a.type # "mule"
    /\ (Done /\ batch = MuleRows("X", 10000, 9500)) =>
          \E i \in DOMAIN result.flagged_accounts :
              LET m == result.flagged_accounts[i]
              IN  /\ m.id = Acct("X", 2)
                  /\ m.type = "mule"
                  /\ m.risk_score >= 45

----------------------------------------------------------------------------
(* Flagged accounts *)

\* C18: flagged_accounts holds exactly the accounts whose final suspicious
\* value is true, one entry each, and the reason of an entry is its flags
\* joined by '; ', or 'Low-level anomaly' when it has no flags.
C18_FlaggedAccountsAndReasons ==
    Done =>
        LET nodes   == NodeData(result)
            flagged == result.flagged_accounts
        IN  /\ {flagged[i].id : i \in DOMAIN flagged}
                  = {nodes[j].id : j \in {k \in DOMAIN nodes : nodes[k].suspicious}}
            /\ \A i, j \in DOMAIN flagged : flagged[i].id = flagged[j].id => i = j
            /\ \A i \in DOMAIN flagged : \A j \in DOMAIN nodes :
                  nodes[j].id = flagged[i].id =>
                      LET fl == nodes[j].flags
                          re == flagged[i].reason
                      IN  IF fl = <<>>
                          THEN re = <<"Low-level anomaly">>
                          ELSE /\ Len(re) = 2 * Len(fl) - 1
                               /\ \A k \in DOMAIN fl : re[2 * k - 1] = fl[k]
                               /\ \A k \in 1..(Len(fl) - 1) : re[2 * k] = "; "

\* A document with an account left out of flagged_accounts, a flagged account
\* without flags and a flagged account with two flags or more.
C18_Witness ==
    /\ Done
    /\ \E j \in DOMAIN NodeData(result) : ~NodeData(result)[j].suspicious
    /\ \E i \in DOMAIN result.flagged_accounts :
          /\ result.flagged_accounts[i].flags = <<>>
          /\ result.flagged_accounts[i].reason = <<"Low-level anomaly">>
    /\ \E i \in DOMAIN result.flagged_accounts :
          /\ Len(result.flagged_accounts[i].flags) >= 2
          /\ result.flagged_accounts[i].reason[2] = "; "

----------------------------------------------------------------------------
(* The input boundary of /analyze *)

\* The column names of the upload as the handlers compare them
ColumnNames ==
    {Strip((request.ids \o request.amount)[i]) :
        i \in DOMAIN (request.ids \o request.amount)}

LacksRequiredColumn ==
    \/ <<"sender_id">> \notin ColumnNames /\ <<"source">> \notin ColumnNames
    \/ <<"receiver_id">> \notin ColumnNames /\ <<"target">> \notin ColumnNames
    \/ <<"amount">> \notin ColumnNames

\* C19: an upload that lacks a required column (source or sender_id, target
\* or receiver_id, amount) is answered with a client error before any
\* analysis starts, never with an internal failure.
C19_MissingColumnRejected ==
    (pc # "request" /\ LacksRequiredColumn) =>
        /\ response = 400
        /\ pc = "responded"
        /\ frame = NotRun

\* An upload as the reproduction script posts it: a .csv file that parses,
\* the sender_id, receiver_id and amount columns, and amounts that are
\* numbers once '$', ',' and blanks are taken out, one at least written with
\* such punctuation.
PunctuatedUpload ==
    /\ request.csv_name
    /\ request.readable
    /\ {<<"sender_id">>, <<"receiver_id">>, <<"amount">>} \subseteq ColumnNames
    /\ \A i \in DOMAIN request.cells : FloatText(StripPunctuation(request.cells[i])).ok
    /\ \E i \in DOMAIN request.cells : StripPunctuation(request.cells[i]) # request.cells[i]

\* C20: an upload whose amounts carry currency punctuation is accepted by
\* /analyze: the load succeeds, there is no rejection and no internal
\* failure, and the amounts are coerced after the punctuation is taken out.
C20_PunctuatedAmountsAccepted ==
    (pc # "request" /\ PunctuatedUpload) =>
        /\ response = 0
        /\ pc = "analysis"
        /\ request.app = "backend" =>
              \A i \in DOMAIN request.cells :
                  frame.amount[i] = FloatText(StripPunctuation(request.cells[i])).v

----------------------------------------------------------------------------
(* Normalizer and Graph Builder *)

\* C21: the cleaned rows are the rows of the batch whose trimmed source and
\* trimmed target differ and whose amount parses and is not zero, in input
\* order, each with its identifiers trimmed, its amount replaced by the
\* absolute value and its timestamp, present or missing, as it came.
C21_NormalizerKeepsAndDrops ==
    pc # "clean" =>
        /\ Len(df) = Cardinality(KeptIndices(batch))
        /\ \A i \in KeptIndices(batch) :
              LET k == Cardinality({j \in KeptIndices(batch) : j <= i})
              IN  /\ df[k].source = Strip(batch[i].source)
                  /\ df[k].target = Strip(batch[i].target)
                  /\ df[k].amount = AbsInt(batch[i].amount.v)
                  /\ df[k].timestamp = batch[i].timestamp

\* The cleaning has run on a batch with a negative amount between padded
\* identifiers and without timestamp, which is kept, a self-loop hidden by
\* blanks and a zero or unparseable amount, which are dropped.
C21_Witness ==
    /\ pc = "build"
    /\ \E i, k, l \in DOMAIN batch :
          /\ batch[i].amount.ok /\ batch[i].amount.v < 0
          /\ batch[i].source # Strip(batch[i].source)
          /\ batch[i].timestamp = NoTs
          /\ i \in KeptIndices(batch)
          /\ batch[k].source # batch[k].target
          /\ Strip(batch[k].source) = Strip(batch[k].target)
          /\ batch[l].amount.v = 0
          /\ Strip(batch[l].source) # Strip(batch[l].target)
    /\ \E j \in DOMAIN df : df[j].amount = 9000 /\ df[j].timestamp = NoTs

\* C22: once the graph is built, the edge u -> v has as amount the sum of the
\* amounts of the cleaned transactions u -> v, as count their number, and a
\* timestamp list holding the timestamp of every one of them, in order.
C22_EdgeFoldsEveryTransaction ==
    pc \notin {"clean", "build"} =>
        \A e \in DOMAIN G.edge :
            LET txs == SelectSeq(df, LAMBDA r : r.source = e[1] /\ r.target = e[2])
                ts  == SelectSeq(txs, LAMBDA r : r.timestamp # NoTs)
            IN  /\ G.edge[e].amount = SumSeq([i \in DOMAIN txs |-> txs[i].amount])
                /\ G.edge[e].count = Len(txs)
                /\ G.edge[e].timestamp = [i \in DOMAIN ts |-> ts[i].timestamp[1]]

----------------------------------------------------------------------------
(* Detectors *)

\* C23: detector C counts single transactions: after scoring, a node has the
\* flag 'structuring (N near-threshold txns)' exactly when N >= 3 of the
\* cleaned transactions into it have an amount in [8000, 10000), N being
\* their number; three transfers of 9500 from one sender to R count as 3.
C23_StructuringPerTransaction ==
    pc = "rings" =>
        \A n \in NodeSet(G) :
            LET N == Len(SelectSeq(df, LAMBDA r : /\ r.target = n
                                                  /\ 8000 <= r.amount
                                                  /\ r.amount < 10000))
            IN  IF N >= 3
                THEN Flag("structuring (N near-threshold txns)", <<N>>)
                         \in Range(attrs[n].flags)
                ELSE ~HasFlag(attrs[n], "structuring (N near-threshold txns)")

\* C24: after scoring, a node has the flag 'velocity burst (>20 txn/hour)'
\* exactly when it has at least 5 incoming timestamps and their number
\* divided by the hours they span exceeds 20 (timestamps in minutes: 60 times
\* the number exceeds 20 times the span); 5 transfers within 6 minutes
\* trigger it.
C24_VelocityBurst ==
    pc = "rings" =>
        \A n \in NodeSet(G) :
            LET ts   == NodeInTimestamps(G, n)
                span == IF ts = <<>> THEN 0
                        ELSE Max(0, SortInts(ts)[Len(ts)] - SortInts(ts)[1])
            IN  HasFlag(attrs[n], "velocity burst (>20 txn/hour)")
                    <=> (Len(ts) >= 5 /\ 60 * Len(ts) > 20 * span)

----------------------------------------------------------------------------
(* Ring detector *)

\* C25: the ring detector gives every member of a cycle recorded as RING_nnn
\* min(previous + 50, 100) as risk_score, once per such cycle, sets it
\* suspicious, and appends the ring id to its rings and the flag
\* 'in RING_nnn' to its flags: a node on k recorded cycles ends with exactly
\* those k ids and k flags, in the order the cycles were recorded, and a
\* node on no recorded cycle (and in no complex network) is left as it was.
C25_CycleMemberUpdates ==
    [][ (pc = "rings" /\ pc' = "assemble") =>
          \A n \in NodeSet(G) :
              LET on  == SelectSeq(fraud_rings',
                             LAMBDA r : r.id[1] = "RING_" /\ n \in Range(r.nodes))
                  ids == [i \in DOMAIN on |-> on[i].id]
                  k   == Len(ids)
              IN  \/ HasFlag(attrs'[n], "in massive money mule network")
                  \/ k = 0 /\ attrs'[n] = attrs[n]
                  \/ /\ k > 0
                     /\ attrs'[n].risk_score = Min(attrs[n].risk_score + 50 * k, 100)
                     /\ attrs'[n].suspicious
                     /\ attrs'[n].rings = ids
                     /\ attrs'[n].flags
                           = attrs[n].flags \o [i \in DOMAIN ids |-> Flag("in", ids[i])]
      ]_vars

\* The ring detector has run: an account on two recorded cycles, an account
\* on one whose score went from 0 to 50, and an account on none.
C25_Witness ==
    /\ pc = "assemble"
    /\ \E n, m, z \in NodeSet(G) :
          /\ Len(attrs[n].rings) = 2 /\ attrs[n].risk_score = 100
          /\ Len(attrs[n].flags) = 2
          /\ Len(attrs[m].rings) = 1 /\ attrs[m].risk_score = 50
          /\ attrs[z].rings = <<>> /\ ~attrs[z].suspicious

\* The paths of g over len distinct nodes
RECURSIVE SimplePaths(_, _)
SimplePaths(g, len) ==
    IF len = 1 THEN {<<n>> : n \in NodeSet(g)}
    ELSE UNION { {Append(p, v) : v \in Range(g.adj[p[Len(p)]]) \ Range(p)} :
                    p \in SimplePaths(g, len - 1) }

----------------------------------------------------------------------------
(* Community detection *)

\* C27: when louvain_communities raises, or is unavailable, every node's
\* community label is that of its weakly connected component: two nodes have
\* the same label exactly when they are in the same weakly connected
\* component.
C27_FallbackLabelsAreComponents ==
    (community_map # NotRun /\ louvain \in {"raises", "unavailable"}) =>
        \E index \in {Listed(WeakComponentIndex(G))} :
            \A i, j \in DOMAIN G.nodes :
                (community_map[G.nodes[i]] = community_map[G.nodes[j]]) <=> (index[i] = index[j])

----------------------------------------------------------------------------
(* Benford guard *)

\* C28: the Benford deviation is 0, and the status 'Normal', whenever fewer
\* than 100 of the cleaned amounts are 1 or more, however many amounts are
\* below 1: a non-zero deviation comes only from 100 leading digits or more.
C28_BenfordNeedsHundredDigits ==
    (pc = "checked" /\ Len(SelectSeq(series, LAMBDA a : a >= 100)) < 100) =>
        /\ deviation.benford_deviation = 0
        /\ deviation.benford_status = "Normal"

----------------------------------------------------------------------------
(* Kingpin detection *)

\* C29: in a large batch every account that has no incoming transaction and
\* sends positive amounts to N distinct recipients, for any N from 20 to 50,
\* appears in flagged_accounts.
C29_KingpinsFlagged ==
    (Done /\ result # EmptyDoc /\ Len(G.nodes) >= 100) =>
        \A n \in NodeSet(G) :
            (InDegree(G, n) = 0 /\ OutDegree(G, n) \in 20..50) =>
                \E i \in DOMAIN result.flagged_accounts : result.flagged_accounts[i].id = n

----------------------------------------------------------------------------
(* Ring membership in the two views *)

\* C30: ring membership is the same in the ring view and the account view.
\* For every ring r and every account a of r.member_accounts, r.ring_id is
\* in a.rings; for a RING_ id the converse holds, an account carrying it is
\* a member of that ring; and every id in any account's rings is the
\* ring_id of an entry of fraud_rings.  A flagged account carries the rings
\* of its node.
C30_RingMembershipConsistent ==
    (Done /\ result # EmptyDoc) =>
        LET node(i)   == result.elements[i].data
            nodes     == 1..result.metrics.total_nodes
            ringsOf(a) == UNION {Range(node(i).rings) : i \in {k \in nodes : node(k).id = a}}
        IN  /\ \A k \in DOMAIN Rings : \A a \in Range(Rings[k].member_accounts) :
                   Rings[k].ring_id \in ringsOf(a)
            /\ \A i \in nodes : \A id \in Range(node(i).rings) :
                   \E k \in DOMAIN Rings :
                       /\ Rings[k].ring_id = id
                       /\ IsCycleRing(Rings[k]) => node(i).id \in Range(Rings[k].member_accounts)
            /\ \A j \in DOMAIN result.flagged_accounts :
                   \E i \in nodes : /\ node(i).id = result.flagged_accounts[j].id
                                    /\ node(i).rings = result.flagged_accounts[j].rings

\* A result with a RING_ ring and a COMPLEX_NET_ ring, an account in two
\* rings, and an account of the network that the network ring does not list.
C30_Witness ==
    /\ Done
    /\ result # EmptyDoc
    /\ \E k \in DOMAIN Rings : IsCycleRing(Rings[k])
    /\ \E j \in DOMAIN result.flagged_accounts : Len(result.flagged_accounts[j].rings) >= 2
    /\ \E k \in DOMAIN Rings, j \in DOMAIN result.flagged_accounts :
           /\ IsNetworkRing(Rings[k])
           /\ Rings[k].ring_id \in Range(result.flagged_accounts[j].rings)
           /\ result.flagged_accounts[j].id \notin Range(Rings[k].member_accounts)

====
